---- MODULE Spec2Model ----
(***************************************************************************)
(* A model of feedmixer.py: the FeedMixer object (its stored feed list,    *)
(* its memoized entry list), the thread pool that __fetch_entries drives,  *)
(* the merge (trim, concatenate, sort on `published`) and extract_meta.    *)
(*                                                                         *)
(* A feedparser entry is a dictionary; it is modelled as a record whose    *)
(* DOMAIN is the set of keys the entry has.  A Python string is modelled   *)
(* as the sequence of its character codes, compared as Python compares     *)
(* strings; a time tuple as the 6-tuple year..second.                      *)
(***************************************************************************)
EXTENDS Integers, Sequences, FiniteSets, TLC

(* ------------------------------ bounds -------------------------------- *)
\* longest feed list a caller supplies
MaxFeedList == 2
\* most entries a fetched feed carries
MaxItems == 2

(* ------------------------------ helpers ------------------------------- *)
Min(a, b) == IF a < b THEN a ELSE b

Max(a, b) == IF a > b THEN a ELSE b

\* Python's s[0:n] (also written s[:n]) for any integer n
PySlice(s, n) ==
  IF n >= 0 THEN SubSeq(s, 1, Min(n, Len(s)))
            ELSE SubSeq(s, 1, Max(Len(s) + n, 0))

\* Python's ordering of two strings (and of two tuples of numbers):
\* lexicographic, a proper prefix is smaller
RECURSIVE LexLess(_, _)
LexLess(a, b) ==
  IF b = <<>> THEN FALSE
  ELSE IF a = <<>> THEN TRUE
  ELSE IF Head(a) # Head(b) THEN Head(a) < Head(b)
  ELSE LexLess(Tail(a), Tail(b))

Has(e, key) == key \in DOMAIN e

(* --------------------------- the modelled world ----------------------- *)
\* the `published` strings of the modelled feeds, as character codes:
\* "a" < "ab" < "b" < "ba" in Python's order of strings
PubStrings == { <<1>>, <<1, 2>>, <<2>>, <<2, 1>> }

\* the time tuple (year, month, day, hour, minute, second) the feed parser
\* gives for a `published` string, << >> (None) when it cannot parse it.
\* The order of the strings and the order of the times they denote are
\* unrelated: "a" is later than "ab", "b" is the latest, "ba" is no date
ParseDate(p) ==
  CASE p = <<1>>    -> <<2020, 1, 1, 0, 1, 0>>
    [] p = <<1, 2>> -> <<2020, 1, 1, 0, 0, 30>>
    [] p = <<2>>    -> <<2020, 1, 1, 0, 1, 60>>
    [] OTHER        -> <<>>

\* an entry that has `published` has `published_parsed` too
Published(p) == [published |-> p, published_parsed |-> ParseDate(p)]

\* an entry that has an updated date and no published date
Unpublished == [updated_parsed |-> <<2020, 1, 1, 0, 0, 30>>]

\* the entries of the modelled feeds
RawItems == { Published(p) : p \in PubStrings } \cup { Unpublished }

\* two entries, one with and one without `published`
PlainItems == { Published(<<1>>), Unpublished }

SeqsUpTo(S, n) == UNION { [1..k -> S] : k \in 0..n }

\* what a call of the cacher can do: raise, or return a feed whose entries
\* are drawn from items
OutcomesOver(items) ==
  { [ok |-> FALSE, feed |-> <<>>, entries |-> <<>>] }
  \cup { [ok |-> TRUE, feed |-> <<>>, entries |-> es] :
            es \in SeqsUpTo(items, MaxItems) }

\* the fetch functions of the model: "single" returns feeds of at most one
\* plain entry, "plain" feeds of plain entries, "raw" feeds whose entries
\* differ in `published` and `published_parsed`
SingleOutcomes ==
  { [ok |-> FALSE, feed |-> <<>>, entries |-> <<>>] }
  \cup { [ok |-> TRUE, feed |-> <<>>, entries |-> es] :
            es \in SeqsUpTo(PlainItems, 1) }

PlainOutcomes == OutcomesOver(PlainItems)

RawOutcomes == OutcomesOver(RawItems)

\* entries with and without an author of their own
AuthorItems ==
  { Published(<<1>>),
    Published(<<1>>) @@ [author_detail |-> [name |-> "entry author"]] }

\* f.feed of a parsed feed: without author, or with one of two authors
FeedDicts ==
  { <<>>,
    [author_detail |-> [name |-> "feed author", email |-> "feed@example.org"]],
    [author_detail |-> [name |-> "other author", href |-> "http://other.example"]] }

\* "author": feeds with or without a feed-level author, whose entries have
\* or lack an author of their own
AuthorOutcomes ==
  { [ok |-> FALSE, feed |-> <<>>, entries |-> <<>>] }
  \cup { [ok |-> TRUE, feed |-> fd, entries |-> es] :
            fd \in FeedDicts, es \in SeqsUpTo(AuthorItems, MaxItems) }

\* the dates of an entry: `published` strings that differ in their seconds,
\* with the time tuple the parser gives for each (None for the last), and
\* for some an updated date; the seconds of a time tuple range over 0..61
MetaDates ==
  { [published |-> <<1, 0>>, published_parsed |-> <<2016, 12, 31, 23, 59, 0>>],
    [published |-> <<1, 59>>, published_parsed |-> <<2016, 12, 31, 23, 59, 59>>,
     updated_parsed |-> <<2016, 12, 31, 23, 59, 60>>],
    [published |-> <<1, 60>>, published_parsed |-> <<2016, 12, 31, 23, 59, 60>>,
     updated_parsed |-> <<2017, 1, 1, 0, 0, 0>>],
    [published |-> <<1, 61>>, published_parsed |-> <<2016, 12, 31, 23, 59, 61>>,
     updated_parsed |-> <<2016, 12, 31, 23, 59, 61>>],
    [published |-> <<2>>, published_parsed |-> <<>>,
     updated_parsed |-> <<2016, 12, 31, 23, 59, 59>>] }

\* the other keys of an entry: none; all the scalar keys and an author; tags
\* (one without a term) and an enclosure with href, length and type; an
\* enclosure without length, as a link element without that attribute gives
MetaOptions ==
  { <<>>,
    [title |-> "t", link |-> "http://item.example", description |-> "d",
     comments |-> "http://item.example/comments", id |-> "urn:1",
     license |-> "http://license.example",
     author_detail |-> [name |-> "entry author", email |-> "entry@example.org",
                        href |-> "http://author.example"]],
    [tags |-> << [term |-> "news"], [label |-> "unnamed"] >>,
     enclosures |-> << [href |-> "http://item.example/a.mp3",
                        length |-> "1024", type |-> "audio/mpeg"] >>],
    [title |-> "t",
     enclosures |-> << [href |-> "http://item.example/b.mp3",
                        type |-> "audio/mpeg"] >>] }

MetaItems == { d @@ o : d \in MetaDates, o \in MetaOptions }

\* "meta": feeds whose entries differ in the optional keys they have
MetaOutcomes == OutcomesOver(MetaItems)

(* ------------------------------ state --------------------------------- *)
VARIABLES
  num_keep,        \* self.num_keep
  max_threads,     \* self.max_threads
  max_feeds,       \* self.max_feeds
  feeds,           \* self._feeds
  supplied,        \* the list the caller gave last, to __init__ or the setter
  mixed_entries,   \* self._mixed_entries
  cacher,          \* self.cacher: which of the modelled fetch functions it is
  pc,              \* "idle", or "fetching" inside __fetch_entries
  status,          \* per submitted future: pending, running, returned, raised, consumed
  result,          \* per submitted future: the outcome it holds
  parsed_entries,  \* the local list of __fetch_entries
  calls,           \* per submitted future: how often the cacher was invoked
  arrived,         \* the futures in the order as_completed yielded them
  lastOp,          \* the last completed operation: "new", "set" (feeds assigned),
                   \* "hit", "mix", "raise" (mixed_entries returned the memo,
                   \* returned a new mix, raised)
  prevOp,          \* the operation completed before it
  ret              \* what the access to mixed_entries returned, when it is the
                   \* last completed operation

vars == << num_keep, max_threads, max_feeds, feeds, supplied, mixed_entries,
           cacher, pc, status, result, parsed_entries, calls, arrived, lastOp,
           prevOp, ret >>

config == << num_keep, max_threads, max_feeds, cacher >>

\* an access that has not happened, and one that raised
NoReturn == [kind |-> "none", value |-> <<>>]

Raised == [kind |-> "raised", value |-> <<>>]

Returned(v) == [kind |-> "returned", value |-> v]

(* --------------------------- pure functions --------------------------- *)
\* e.get(key, default)
Get(e, key, default) == IF Has(e, key) THEN e[key] ELSE default

\* the objects a successful cacher call returns for the future at position
\* k of the feed list: the feed's entries, each a fresh object (src, pos
\* and idx stand for the object's identity)
Fetched(url, k, outcome) ==
  [ j \in 1..Len(outcome.entries) |->
      outcome.entries[j] @@ [src |-> url, pos |-> k, idx |-> j] ]

\* a fallback that gives every entry the author of the feed
AuthorFallbackOverwrite(feed, newest) ==
  IF Has(feed, "author_detail")
  THEN [ i \in 1..Len(newest) |->
           [author_detail |-> feed.author_detail] @@ newest[i] ]
  ELSE newest

\* if 'author_detail' in f.feed: every e of newest without 'author_detail'
\* gets f.feed.author_detail
AuthorFallback(feed, newest) ==
  IF Has(feed, "author_detail")
  THEN [ i \in 1..Len(newest) |->
           IF ~ Has(newest[i], "author_detail")
           THEN newest[i] @@ [author_detail |-> feed.author_detail]
           ELSE newest[i] ]
  ELSE newest

\* a trim without the test for the sentinel: entries[0:-1] drops the last
NewestNoSentinel(entries, keep) == PySlice(entries, keep)

\* a trim that keeps one entry too many
NewestOffByOne(entries, keep) ==
  IF keep = -1 THEN entries ELSE PySlice(entries, keep + 1)

\* newest: f.entries, or f.entries[0:self.num_keep]
Newest(entries, keep) ==
  IF keep = -1 THEN entries ELSE PySlice(entries, keep)

\* the key function of the sort, lambda e: e.published, is defined on e
HasSortKey(e) == Has(e, "published")

\* a descending sort that places x before the elements whose key equals its
\* own, as reversing an ascending sort does
RECURSIVE InsertDescTiesFirst(_, _)
InsertDescTiesFirst(s, x) ==
  IF s = <<>> THEN << x >>
  ELSE IF ~ LexLess(x.published, Head(s).published) THEN << x >> \o s
  ELSE << Head(s) >> \o InsertDescTiesFirst(Tail(s), x)

\* list.sort(key=..., reverse=True) places x after every element whose key
\* is greater than or equal to its own: descending, and stable
RECURSIVE InsertDesc(_, _)
InsertDesc(s, x) ==
  IF s = <<>> THEN << x >>
  ELSE IF LexLess(Head(s).published, x.published) THEN << x >> \o s
  ELSE << Head(s) >> \o InsertDesc(Tail(s), x)

\* no sort at all
SortDescOmitted(s) == s

RECURSIVE SortDesc(_)
SortDesc(s) ==
  IF s = <<>> THEN <<>>
  ELSE InsertDesc(SortDesc(SubSeq(s, 1, Len(s) - 1)), s[Len(s)])

\* a clamp that lets the leap second through
ToDatetimeClamp60(tp) == SubSeq(tp, 1, 5) \o << Min(tp[6], 60) >>

\* datetime.datetime(*tp[:5] + (min(tp[5], 59),))
ToDatetime(tp) == SubSeq(tp, 1, 5) \o << Min(tp[6], 59) >>

\* Python's None, as the value of a metadata key
None == "None"

\* feedgenerator.Enclosure(enc.href, enc.length, enc.type)
Enclosure(enc) == [url |-> enc.href, length |-> enc.length, mime_type |-> enc.type]

\* enc.href, enc.length and enc.type are attribute accesses: each raises
\* AttributeError when the enclosure has no such key
EnclosureRaises(enc) ==
  ~ (Has(enc, "href") /\ Has(enc, "length") /\ Has(enc, "type"))

\* the body of the loop of extract_meta raises on the entry e
MetadataRaises(e) ==
  /\ Has(e, "enclosures")
  /\ \E n \in 1..Len(e.enclosures) : EnclosureRaises(e.enclosures[n])

\* the body of the loop of extract_meta on one entry (src, pos and idx carry
\* the identity of the entry along)
Metadata(e) ==
  LET base == [ title |-> Get(e, "title", ""),
                link |-> Get(e, "link", ""),
                description |-> Get(e, "description", ""),
                comments |-> Get(e, "comments", None),
                unique_id |-> Get(e, "id", None),
                item_copyright |-> Get(e, "license", None),
                src |-> e.src, pos |-> e.pos, idx |-> e.idx ]
      author == IF Has(e, "author_detail")
                THEN [ author_email |-> Get(e.author_detail, "email", None),
                       author_name |-> Get(e.author_detail, "name", None),
                       author_link |-> Get(e.author_detail, "href", None) ]
                ELSE <<>>
      tp == Get(e, "published_parsed", <<>>)
      tu == Get(e, "updated_parsed", <<>>)
      pub == IF tp # <<>> THEN [pubdate |-> ToDatetime(tp)] ELSE <<>>
      upd == IF tu # <<>> THEN [updateddate |-> ToDatetime(tu)] ELSE <<>>
      cat == IF Has(e, "tags")
             THEN [ categories |->
                      [ n \in 1..Len(e.tags) |-> Get(e.tags[n], "term", None) ] ]
             ELSE <<>>
      enc == IF Has(e, "enclosures")
             THEN [ enclosures |->
                      [ n \in 1..Len(e.enclosures) |-> Enclosure(e.enclosures[n]) ] ]
             ELSE <<>>
  IN base @@ author @@ pub @@ upd @@ cat @@ enc

\* extract_meta raises when the loop body raises on one of the entries
ExtractMetaRaises(entries) ==
  \E i \in 1..Len(entries) : MetadataRaises(entries[i])

extract_meta(entries) == [ i \in 1..Len(entries) |-> Metadata(entries[i]) ]

(* ------------------------------ actions ------------------------------- *)
Futures == 1..Len(feeds)

Running == { k \in DOMAIN status : status[k] = "running" }

\* the outcomes a call of self.cacher can have
CacherOutcomes ==
  CASE cacher = "single" -> SingleOutcomes
    [] cacher = "plain"  -> PlainOutcomes
    [] cacher = "author" -> AuthorOutcomes
    [] cacher = "meta"   -> MetaOutcomes
    [] OTHER             -> RawOutcomes

\* FeedMixer.__init__
InitWith(fetcher, keeps, threads, maxfeeds, lists) ==
  /\ num_keep \in keeps
  /\ max_threads \in threads
  /\ max_feeds \in maxfeeds
  /\ \E value \in lists : supplied = value /\ feeds = PySlice(value, max_feeds)
  /\ mixed_entries = <<>>
  /\ cacher = fetcher
  /\ pc = "idle"
  /\ status = <<>>
  /\ result = <<>>
  /\ parsed_entries = <<>>
  /\ calls = <<>>
  /\ arrived = <<>>
  /\ lastOp = "new"
  /\ prevOp = "new"
  /\ ret = NoReturn

\* a setter that empties the memo only when the length of the list changes
SetFeedsSameLength(value) ==
  /\ pc = "idle"
  /\ feeds' = PySlice(value, max_feeds)
  /\ supplied' = value
  /\ mixed_entries' = IF Len(feeds') # Len(feeds) THEN <<>> ELSE mixed_entries
  /\ lastOp' = "set"
  /\ prevOp' = lastOp
  /\ status' = <<>>
  /\ result' = <<>>
  /\ parsed_entries' = <<>>
  /\ calls' = <<>>
  /\ arrived' = <<>>
  /\ ret' = NoReturn
  /\ UNCHANGED << config, pc >>

\* a setter that stores the whole list
SetFeedsUntruncated(value) ==
  /\ pc = "idle"
  /\ feeds' = value
  /\ supplied' = value
  /\ mixed_entries' = <<>>
  /\ lastOp' = "set"
  /\ prevOp' = lastOp
  /\ status' = <<>>
  /\ result' = <<>>
  /\ parsed_entries' = <<>>
  /\ calls' = <<>>
  /\ arrived' = <<>>
  /\ ret' = NoReturn
  /\ UNCHANGED << config, pc >>

\* a setter that stores the list and keeps the memo
SetFeedsKeepMemo(value) ==
  /\ pc = "idle"
  /\ feeds' = PySlice(value, max_feeds)
  /\ supplied' = value
  /\ lastOp' = "set"
  /\ prevOp' = lastOp
  /\ status' = <<>>
  /\ result' = <<>>
  /\ parsed_entries' = <<>>
  /\ calls' = <<>>
  /\ arrived' = <<>>
  /\ ret' = NoReturn
  /\ UNCHANGED << config, mixed_entries, pc >>

\* the feeds setter
SetFeeds(value) ==
  /\ pc = "idle"
  /\ feeds' = PySlice(value, max_feeds)
  /\ supplied' = value
  /\ mixed_entries' = <<>>
  /\ lastOp' = "set"
  /\ prevOp' = lastOp
  /\ status' = <<>>
  /\ result' = <<>>
  /\ parsed_entries' = <<>>
  /\ calls' = <<>>
  /\ arrived' = <<>>
  /\ ret' = NoReturn
  /\ UNCHANGED << config, pc >>

\* mixed_entries when the memo is not empty: return it
AccessMemo ==
  /\ pc = "idle"
  /\ ~ (Len(mixed_entries) < 1)
  /\ calls' = [ k \in Futures |-> 0 ]
  /\ lastOp' = "hit"
  /\ prevOp' = lastOp
  /\ ret' = Returned(mixed_entries)
  /\ status' = <<>>
  /\ result' = <<>>
  /\ parsed_entries' = <<>>
  /\ arrived' = <<>>
  /\ UNCHANGED << config, feeds, supplied, mixed_entries, pc >>

\* mixed_entries when the memo is empty: enter __fetch_entries, create the
\* pool and submit one future per element of self.feeds
AccessFetch ==
  /\ pc = "idle"
  /\ Len(mixed_entries) < 1
  /\ pc' = "fetching"
  /\ parsed_entries' = <<>>
  /\ status' = [ k \in Futures |-> "pending" ]
  /\ result' = [ k \in Futures |->
                     [ok |-> FALSE, feed |-> <<>>, entries |-> <<>>] ]
  /\ calls' = [ k \in Futures |-> 0 ]
  /\ arrived' = <<>>
  /\ ret' = NoReturn
  /\ UNCHANGED << config, feeds, supplied, mixed_entries, lastOp, prevOp >>

\* a pool that keeps one of its threads back
StartTaskReserving(k) ==
  /\ pc = "fetching"
  /\ status[k] = "pending"
  /\ Cardinality(Running) + 1 < max_threads
  /\ status' = [status EXCEPT ![k] = "running"]
  /\ calls' = [calls EXCEPT ![k] = @ + 1]
  /\ UNCHANGED << config, feeds, supplied, mixed_entries, pc, result,
                  parsed_entries, arrived, lastOp, prevOp, ret >>

\* a pool that starts every queued future at once
StartTaskUnbounded(k) ==
  /\ pc = "fetching"
  /\ status[k] = "pending"
  /\ status' = [status EXCEPT ![k] = "running"]
  /\ calls' = [calls EXCEPT ![k] = @ + 1]
  /\ UNCHANGED << config, feeds, supplied, mixed_entries, pc, result,
                  parsed_entries, arrived, lastOp, prevOp, ret >>

\* a worker thread of the pool takes a queued future and calls the cacher
StartTask(k) ==
  /\ pc = "fetching"
  /\ status[k] = "pending"
  /\ Cardinality(Running) < max_threads
  /\ status' = [status EXCEPT ![k] = "running"]
  /\ calls' = [calls EXCEPT ![k] = @ + 1]
  /\ UNCHANGED << config, feeds, supplied, mixed_entries, pc, result,
                  parsed_entries, arrived, lastOp, prevOp, ret >>

\* a task that is queued again when its cacher call raises
FinishTaskRetry(k) ==
  /\ pc = "fetching"
  /\ status[k] = "running"
  /\ \E outcome \in CacherOutcomes :
        /\ status' = [status EXCEPT
                        ![k] = IF outcome.ok THEN "returned" ELSE "pending"]
        /\ result' = [result EXCEPT
                        ![k] = [ok |-> outcome.ok, feed |-> outcome.feed,
                                entries |-> Fetched(feeds[k], k, outcome)]]
  /\ UNCHANGED << config, feeds, supplied, mixed_entries, pc, parsed_entries,
                  calls, arrived, lastOp, prevOp, ret >>

\* the cacher call returns a parsed feed, or raises
FinishTask(k) ==
  /\ pc = "fetching"
  /\ status[k] = "running"
  /\ \E outcome \in CacherOutcomes :
        /\ status' = [status EXCEPT
                        ![k] = IF outcome.ok THEN "returned" ELSE "raised"]
        /\ result' = [result EXCEPT
                        ![k] = [ok |-> outcome.ok, feed |-> outcome.feed,
                                entries |-> Fetched(feeds[k], k, outcome)]]
  /\ UNCHANGED << config, feeds, supplied, mixed_entries, pc, parsed_entries,
                  calls, arrived, lastOp, prevOp, ret >>

\* a loop that assigns the newest entries instead of appending them
CollectOverwrite(k) ==
  /\ pc = "fetching"
  /\ status[k] \in {"returned", "raised"}
  /\ status' = [status EXCEPT ![k] = "consumed"]
  /\ arrived' = Append(arrived, k)
  /\ parsed_entries' =
       IF status[k] = "returned"
       THEN AuthorFallback(result[k].feed, Newest(result[k].entries, num_keep))
       ELSE parsed_entries
  /\ UNCHANGED << config, feeds, supplied, mixed_entries, pc, result, calls,
                  lastOp, prevOp, ret >>

\* a loop that stores what it has so far after each pass
CollectPublishing(k) ==
  /\ pc = "fetching"
  /\ status[k] \in {"returned", "raised"}
  /\ status' = [status EXCEPT ![k] = "consumed"]
  /\ arrived' = Append(arrived, k)
  /\ parsed_entries' =
       IF status[k] = "returned"
       THEN parsed_entries
              \o AuthorFallback(result[k].feed,
                                Newest(result[k].entries, num_keep))
       ELSE parsed_entries
  /\ mixed_entries' = extract_meta(parsed_entries')
  /\ UNCHANGED << config, feeds, supplied, pc, result, calls,
                  lastOp, prevOp, ret >>

\* one pass of the loop over as_completed: future.result() returns, the
\* newest entries get the author fallback and are appended, or it raises and
\* the message is printed
Collect(k) ==
  /\ pc = "fetching"
  /\ status[k] \in {"returned", "raised"}
  /\ status' = [status EXCEPT ![k] = "consumed"]
  /\ arrived' = Append(arrived, k)
  /\ parsed_entries' =
       IF status[k] = "returned"
       THEN parsed_entries
              \o AuthorFallback(result[k].feed,
                                Newest(result[k].entries, num_keep))
       ELSE parsed_entries
  /\ UNCHANGED << config, feeds, supplied, mixed_entries, pc, result, calls,
                  lastOp, prevOp, ret >>

\* after the loop: sort, extract_meta, store, and return to the caller of
\* mixed_entries; the sort raises when an entry has no `published`, and
\* extract_meta when an enclosure lacks a key
Merge ==
  /\ pc = "fetching"
  /\ \A k \in Futures : status[k] = "consumed"
  /\ pc' = "idle"
  /\ prevOp' = lastOp
  /\ IF /\ \A i \in 1..Len(parsed_entries) : HasSortKey(parsed_entries[i])
        /\ ~ ExtractMetaRaises(parsed_entries)
     THEN /\ mixed_entries' = extract_meta(SortDesc(parsed_entries))
          /\ ret' = Returned(mixed_entries')
          /\ lastOp' = "mix"
     ELSE /\ mixed_entries' = mixed_entries
          /\ ret' = Raised
          /\ lastOp' = "raise"
  /\ UNCHANGED << config, feeds, supplied, status, result, parsed_entries,
                  calls, arrived >>

(* --------------------------- specifications --------------------------- *)
\* a mixer over its whole life: construction, accesses, reassignments
Init ==
  InitWith("single", {-1, 0, 1}, {1, 2}, 0..MaxFeedList,
           SeqsUpTo({"A", "B"}, MaxFeedList))

\* the operations on a mixer whose feed list is never reassigned
NextMix ==
  \/ AccessMemo
  \/ AccessFetch
  \/ \E k \in Futures : StartTask(k)
  \/ \E k \in Futures : FinishTask(k)
  \/ \E k \in Futures : Collect(k)
  \/ Merge

Next ==
  \/ \E value \in SeqsUpTo({"A", "B"}, MaxFeedList) : SetFeeds(value)
  \/ NextMix

Spec == Init /\ [][Next]_vars

\* three sources on pools of one, two and three threads
InitPool ==
  InitWith("plain", {-1, 0, 1}, {1, 2, 3}, {3},
           { << "A", "B", "C" >> })

SpecPool == InitPool /\ [][NextMix]_vars

\* two sources whose entries differ in `published` and `published_parsed`
InitMerge ==
  InitWith("raw", {-1, 1, 2}, {2}, {2}, { << "A", "B" >> })

SpecMerge == InitMerge /\ [][NextMix]_vars

\* two sources with or without a feed-level author
InitAuthor ==
  InitWith("author", {-1, 1}, {1, 2}, {2}, { << "A", "B" >> })

SpecAuthor == InitAuthor /\ [][NextMix]_vars

\* one source whose entries differ in the optional keys they have
InitMeta ==
  InitWith("meta", {-1, 1}, {1}, {1}, { << "A" >> })

SpecMeta == InitMeta /\ [][NextMix]_vars

\* no, one and three sources on pools of one, two and three threads
InitLive ==
  InitWith("single", {1}, {1, 2, 3}, {3},
           { << >>, << "A" >>, << "A", "B", "C" >> })

\* the pool hands a queued task to a thread that is free; a cacher call that
\* was started returns or raises; as_completed yields a future that is done;
\* the coordinator goes on after the loop
Fairness ==
  /\ WF_vars(\E k \in Futures : StartTask(k))
  /\ WF_vars(\E k \in Futures : FinishTask(k))
  /\ WF_vars(\E k \in Futures : Collect(k))
  /\ WF_vars(Merge)

SpecLive == InitLive /\ [][NextMix]_vars /\ Fairness


(* ------------------------------ claims -------------------------------- *)
\* an access that ran __fetch_entries has completed
MixDone == pc = "idle" /\ lastOp \in {"mix", "raise"}

\* ... and returned to its caller
MixReturned == pc = "idle" /\ lastOp = "mix"

\* the futures of the last mix whose cacher call returned
Succeeded == { k \in DOMAIN result : result[k].ok }

\* the fetched entry a returned metadata record was extracted from
RawOf(m) == result[m.pos].entries[m.idx]

\* the identities of the returned records
Identities(ms) == { << ms[i].pos, ms[i].idx >> : i \in 1..Len(ms) }

\* the identities of the first num_keep entries (of all entries, with the
\* sentinel) of the futures in K
KeptIdentities(K) ==
  { << k, j >> \in K \X (1..MaxItems) :
      j <= Len(result[k].entries) /\ (num_keep = -1 \/ j <= num_keep) }

\* the number of returned records that come from future k
Contribution(k) ==
  Cardinality({ i \in 1..Len(ret.value) : ret.value[i].pos = k })

\* the place of future k in the order as_completed yielded the futures
Place(k) == CHOOSE i \in 1..Len(arrived) : arrived[i] = k

\* entry a entered the merge input before entry b
ArrivedBefore(a, b) ==
  \/ Place(a.pos) < Place(b.pos)
  \/ a.pos = b.pos /\ a.idx < b.idx

\* adjacent records that both carry a pubdate are in descending order
PubdateDescending(ms) ==
  \A i \in 1..(Len(ms) - 1) :
    (Has(ms[i], "pubdate") /\ Has(ms[i + 1], "pubdate"))
      => ~ LexLess(ms[i].pubdate, ms[i + 1].pubdate)

\* C1: after a mix that returns, the pubdate of every entry of the result
\* is greater than or equal to the pubdate of the entry that follows it,
\* whatever the order in which the fetch tasks completed.
C1_PubdateDescending == MixReturned => PubdateDescending(ret.value)

\* a mix that returns holds exactly the kept entries of the sources that
\* succeeded, each once; and a mix raises only when the sort or extract_meta does
ReturnedMixIsExact ==
  /\ MixReturned =>
       /\ Len(ret.value) = Cardinality(Identities(ret.value))
       /\ Identities(ret.value) = KeptIdentities(Succeeded)
  /\ (pc = "idle" /\ lastOp = "raise") =>
       \/ \E i \in 1..Len(parsed_entries) : ~ HasSortKey(parsed_entries[i])
       \/ ExtractMetaRaises(parsed_entries)

\* C2: whichever fetch tasks raise, the mix does not raise; its result holds
\* only entries of the sources that succeeded, in descending order, and they
\* are exactly the entries those sources contribute on their own.
C2_FailuresIsolated ==
  MixDone =>
    /\ ret.kind = "returned"
    /\ \A i \in 1..Len(ret.value) : ret.value[i].pos \in Succeeded
    /\ PubdateDescending(ret.value)
    /\ Identities(ret.value) = KeptIdentities(Succeeded)

\* between two accesses, _mixed_entries is the list the last access returned
MemoHoldsLastReturn ==
  (pc = "idle" /\ lastOp \in {"hit", "mix"}) => ret = Returned(mixed_entries)

\* C3: an access to mixed_entries that follows an access that returned, with
\* no reassignment of feeds in between, returns the identical sequence (the
\* first access left it in _mixed_entries) and calls the cacher for no
\* source; also when the first result is empty.
C3_Memoized ==
  [][ (lastOp \in {"hit", "mix"} /\ (AccessMemo \/ Merge))
      => (ret' = Returned(mixed_entries)
          /\ \A k \in DOMAIN calls' : calls'[k] = 0) ]_vars

\* C4: assigning feeds discards the memoized result, and the access that
\* follows the assignment runs a mix over the assigned list: one cacher call
\* per element of it, and a result made of the entries those calls fetched.
C4_ReassignInvalidates ==
  /\ lastOp = "set" => mixed_entries = <<>>
  /\ (pc = "idle" /\ prevOp = "set" /\ lastOp \in {"hit", "mix", "raise"}) =>
       /\ lastOp \in {"mix", "raise"}
       /\ DOMAIN calls = 1..Len(feeds)
       /\ \A k \in DOMAIN calls : calls[k] = 1
       /\ ret.kind = "returned" =>
            /\ mixed_entries = ret.value
            /\ \A i \in 1..Len(ret.value) :
                 /\ ret.value[i].pos \in Succeeded
                 /\ ret.value[i].src = feeds[ret.value[i].pos]
                 /\ ret.value[i].idx <= Len(result[ret.value[i].pos].entries)

\* an access after a reassignment returned entries of a two-element list
C4_Witness ==
  /\ pc = "idle" /\ prevOp = "set" /\ lastOp = "mix"
  /\ Len(feeds) = 2
  /\ ret.kind = "returned" /\ Len(ret.value) >= 2

\* C5: when every source succeeds, the result is the descending sort by
\* publish time of the kept entries of all sources: no entry is lost, none
\* is duplicated, whatever the order in which the tasks completed.
C5_ExactMerge ==
  (MixDone /\ Succeeded = DOMAIN result) =>
    /\ ret.kind = "returned"
    /\ Len(ret.value) = Cardinality(Identities(ret.value))
    /\ Identities(ret.value) = KeptIdentities(DOMAIN result)
    /\ PubdateDescending(ret.value)

\* the sum, over the sources that succeeded among the first n, of
\* min(num_keep, item count)
RECURSIVE KeptTotal(_)
KeptTotal(n) ==
  IF n = 0 THEN 0
  ELSE KeptTotal(n - 1)
       + (IF result[n].ok THEN Min(num_keep, Len(result[n].entries)) ELSE 0)

\* C6: with num_keep >= 0 the returned sequence is at most as long as the
\* sum over the succeeded sources of min(num_keep, item count), and no
\* source contributes more than num_keep entries; with the sentinel no
\* source contributes more than its item count.
C6_LengthBound ==
  MixReturned =>
    /\ num_keep >= 0 => Len(ret.value) <= KeptTotal(Len(result))
    /\ \A k \in DOMAIN result :
         /\ num_keep >= 0 => Contribution(k) <= num_keep
         /\ Contribution(k) <= Len(result[k].entries)

\* a source with more entries than num_keep was trimmed, another one failed
C6_Witness ==
  /\ MixReturned
  /\ num_keep = 1
  /\ \E k \in Succeeded : Len(result[k].entries) > 1 /\ Contribution(k) = 1
  /\ \E k \in DOMAIN result : ~ result[k].ok

\* C7: within one mix the cacher is invoked exactly once for each element
\* of the feed list, whether the call returns or raises: every future that
\* has left the queue was called once, and at the end every future was.
C7_OneFetchPerSource ==
  /\ pc = "fetching" =>
       /\ DOMAIN calls = 1..Len(feeds)
       /\ \A k \in DOMAIN calls :
            calls[k] = IF status[k] = "pending" THEN 0 ELSE 1
  /\ MixDone =>
       /\ DOMAIN calls = 1..Len(feeds)
       /\ \A k \in DOMAIN calls : calls[k] = 1

\* a mix of three sources ended, one of them raised and one returned
C7_Witness ==
  /\ MixDone
  /\ Len(feeds) = 3
  /\ \E k \in DOMAIN result : ~ result[k].ok
  /\ \E k \in DOMAIN result : result[k].ok

\* C8: at no time do more than max_threads fetch tasks run; a task beyond
\* the bound stays queued.
C8_BoundedConcurrency == Cardinality(Running) <= max_threads

\* the pool is full and a task waits in the queue
C8_Witness ==
  /\ pc = "fetching"
  /\ max_threads = 2
  /\ Cardinality(Running) = max_threads
  /\ \E k \in DOMAIN status : status[k] = "pending"

\* C9: two kept entries with the same sort key appear in the result in the
\* order in which they entered the merge input: by completion order of
\* their tasks, and within one source by the source's own order.
C9_StableTies ==
  MixReturned =>
    \A i, j \in 1..Len(ret.value) :
      (i < j /\ RawOf(ret.value[i]).published = RawOf(ret.value[j]).published)
        => ArrivedBefore(ret.value[i], ret.value[j])

\* the second source completed first, and the result holds entries of equal
\* key from one source and from both sources
C9_Witness ==
  /\ MixReturned
  /\ arrived = << 2, 1 >>
  /\ \E i, j \in 1..Len(ret.value) :
       /\ i < j
       /\ ret.value[i].pos = 2 /\ ret.value[j].pos = 1
       /\ RawOf(ret.value[i]).published = RawOf(ret.value[j]).published
  /\ \E i, j \in 1..Len(ret.value) :
       /\ i < j
       /\ ret.value[i].pos = ret.value[j].pos
       /\ RawOf(ret.value[i]).published = RawOf(ret.value[j]).published

\* C10: a kept entry without a usable published timestamp does not make the
\* mix fail; it is placed after every entry that has a timestamp, and the
\* entries that have one keep their descending order.
C10_MissingTimestampLast ==
  MixDone =>
    /\ ret.kind = "returned"
    /\ \A i, j \in 1..Len(ret.value) :
         i < j =>
           /\ Has(ret.value[j], "pubdate") => Has(ret.value[i], "pubdate")
           /\ (Has(ret.value[i], "pubdate") /\ Has(ret.value[j], "pubdate"))
                => ~ LexLess(ret.value[i].pubdate, ret.value[j].pubdate)

\* the futures whose result the loop has taken and appended
Collected == { k \in DOMAIN status : status[k] = "consumed" /\ result[k].ok }

\* the entry of the merge input that came from entry j of future k
InputOf(k, j) ==
  CHOOSE e \in { parsed_entries[i] : i \in 1..Len(parsed_entries) } :
    e.pos = k /\ e.idx = j

\* C11: before the merge, every kept entry of a fetched feed that has a
\* feed-level author and lacks an author of its own has the author of its
\* own feed; an entry with an author of its own keeps it; when the feed has
\* no author the entry is unchanged; nothing else of an entry changes, and
\* the canonical entries of the mix carry these authors.
C11_AuthorFallback ==
  /\ \A ident \in KeptIdentities(Collected) :
        \E i \in 1..Len(parsed_entries) :
          parsed_entries[i].pos = ident[1] /\ parsed_entries[i].idx = ident[2]
  /\ \A i \in 1..Len(parsed_entries) :
        LET e == parsed_entries[i]
            fd == result[e.pos].feed
            raw == RawOf(e)
        IN /\ \A key \in DOMAIN raw : e[key] = raw[key]
           /\ DOMAIN e \subseteq DOMAIN raw \cup {"author_detail"}
           /\ Has(e, "author_detail") <=>
                (Has(raw, "author_detail") \/ Has(fd, "author_detail"))
           /\ (~ Has(raw, "author_detail") /\ Has(fd, "author_detail")) =>
                e.author_detail = fd.author_detail
  /\ MixReturned =>
        \A i \in 1..Len(ret.value) :
          LET m == ret.value[i]
              e == InputOf(m.pos, m.idx)
          IN IF Has(e, "author_detail")
             THEN /\ m.author_name = Get(e.author_detail, "name", None)
                  /\ m.author_email = Get(e.author_detail, "email", None)
                  /\ m.author_link = Get(e.author_detail, "href", None)
             ELSE ~ Has(m, "author_name")

\* a mix of two feeds with different authors has returned: an entry of the
\* first feed took the author of its feed, beside an entry of the second
\* feed that kept its own, and the second feed has another author
C11_Witness ==
  /\ MixReturned
  /\ Len(feeds) = 2
  /\ result[1].ok /\ result[2].ok
  /\ Has(result[1].feed, "author_detail") /\ Has(result[2].feed, "author_detail")
  /\ result[1].feed # result[2].feed
  /\ \E i, j \in 1..Len(ret.value) :
        /\ ret.value[i].pos = 1
        /\ ~ Has(RawOf(ret.value[i]), "author_detail")
        /\ ret.value[i].author_name = result[1].feed.author_detail.name
        /\ ret.value[j].pos = 2
        /\ Has(RawOf(ret.value[j]), "author_detail")
        /\ ret.value[j].author_name = "entry author"

\* every future has been collected: parsed_entries is the input of the merge
AllCollected == pc = "fetching" /\ \A k \in Futures : status[k] = "consumed"

\* the places of the merge input that hold entry j of future k
PlacesOf(k, j) ==
  { i \in 1..Len(parsed_entries) :
      parsed_entries[i].pos = k /\ parsed_entries[i].idx = j }

\* C12: with num_keep = -1 every entry of every source that was fetched is in
\* the input of the merge, once, whatever the number of entries of the
\* source; the input holds as many entries as the sources have together.
C12_KeepAll ==
  num_keep = -1 =>
    /\ \A k \in Collected :
         \A j \in 1..Len(result[k].entries) : Cardinality(PlacesOf(k, j)) = 1
    /\ AllCollected =>
         Len(parsed_entries)
           = Cardinality({ << k, j >> \in Succeeded \X (1..MaxItems) :
                             j <= Len(result[k].entries) })

\* with num_keep = -1, two sources of the greatest length and a third that
\* raised have been collected; the input holds all entries of the two
C12_Witness ==
  /\ num_keep = -1
  /\ AllCollected
  /\ Len(feeds) = 3
  /\ Cardinality(Succeeded) = 2
  /\ \A k \in Succeeded : Len(result[k].entries) = MaxItems
  /\ Len(parsed_entries) = 2 * MaxItems

\* the canonical date made of the time tuple tp keeps the first five fields
\* and has the seconds of tp, or 59 when they exceed 59
Clamped(date, tp) ==
  /\ Len(date) = 6
  /\ \A n \in 1..5 : date[n] = tp[n]
  /\ date[6] = (IF tp[6] <= 59 THEN tp[6] ELSE 59)

\* C13: the pubdate and the updateddate of a canonical entry have the seconds
\* min(seconds, 59) of the published and the updated time tuple of the raw
\* entry, and its other five fields unchanged; an entry whose seconds are 60
\* is in the result like every other.
C13_LeapSecondClamp ==
  MixReturned =>
    /\ \A i \in 1..Len(ret.value) :
         LET m == ret.value[i]
             raw == RawOf(m)
             tp == Get(raw, "published_parsed", <<>>)
             tu == Get(raw, "updated_parsed", <<>>)
         IN /\ IF tp # <<>> THEN Clamped(m.pubdate, tp) ELSE ~ Has(m, "pubdate")
            /\ IF tu # <<>> THEN Clamped(m.updateddate, tu)
                            ELSE ~ Has(m, "updateddate")
    /\ \A ident \in KeptIdentities(Succeeded) : ident \in Identities(ret.value)

\* a returned mix holds an entry published at second 60 and updated at
\* second 0, and one published at second 59 and updated at second 60
C13_Witness ==
  /\ MixReturned
  /\ \E i, j \in 1..Len(ret.value) :
       /\ RawOf(ret.value[i]).published_parsed = <<2016, 12, 31, 23, 59, 60>>
       /\ RawOf(ret.value[i]).updated_parsed = <<2017, 1, 1, 0, 0, 0>>
       /\ ret.value[i].pubdate = <<2016, 12, 31, 23, 59, 59>>
       /\ ret.value[i].updateddate = <<2017, 1, 1, 0, 0, 0>>
       /\ RawOf(ret.value[j]).published_parsed = <<2016, 12, 31, 23, 59, 59>>
       /\ RawOf(ret.value[j]).updated_parsed = <<2016, 12, 31, 23, 59, 60>>
       /\ ret.value[j].pubdate = <<2016, 12, 31, 23, 59, 59>>
       /\ ret.value[j].updateddate = <<2016, 12, 31, 23, 59, 59>>

\* C14: after the construction and after every assignment of feeds the
\* stored list is the first min(max_feeds, length) elements of the list
\* supplied last, and a mix submits one task for each element of the stored
\* list, so never more than max_feeds tasks.
C14_TruncatedToMaxFeeds ==
  /\ max_feeds >= 0
  /\ Len(feeds) = Min(max_feeds, Len(supplied))
  /\ \A k \in 1..Len(feeds) : feeds[k] = supplied[k]
  /\ Len(status) <= max_feeds
  /\ pc = "fetching" => DOMAIN status = 1..Len(feeds)

\* a list longer than max_feeds was assigned after the construction, and a
\* mix over its stored prefix has submitted its tasks
C14_Witness ==
  /\ lastOp = "set"
  /\ pc = "fetching"
  /\ max_feeds = 1
  /\ Len(supplied) = MaxFeedList
  /\ feeds = << supplied[1] >>
  /\ Len(status) = 1

\* the canonical entries ms are those of the raw entries es, one for each in
\* the same order, with the defaults of the absent keys
Normalized(ms, es) ==
  /\ Len(ms) = Len(es)
  /\ \A i \in 1..Len(ms) :
       LET m == ms[i]
           e == es[i]
       IN /\ m.pos = e.pos /\ m.idx = e.idx
          /\ m.title = (IF Has(e, "title") THEN e.title ELSE "")
          /\ m.link = (IF Has(e, "link") THEN e.link ELSE "")
          /\ m.description = (IF Has(e, "description") THEN e.description ELSE "")
          /\ \A key \in {"author_email", "author_name", "author_link"} :
               Has(m, key) <=> Has(e, "author_detail")
          /\ Has(m, "categories") <=> Has(e, "tags")
          /\ Has(m, "enclosures") <=> Has(e, "enclosures")

\* extract_meta does as C15 says on entries whose enclosures all have an
\* href, a length and a type
NormalizedWhenTriples ==
  (MixDone /\ \A i \in 1..Len(parsed_entries) :
                Has(parsed_entries[i], "enclosures") =>
                  \A n \in 1..Len(parsed_entries[i].enclosures) :
                    {"href", "length", "type"}
                      \subseteq DOMAIN parsed_entries[i].enclosures[n])
    => /\ ret.kind = "returned"
       /\ Normalized(ret.value, SortDesc(parsed_entries))

\* C15: extract_meta does not fail: whatever optional keys the entries lack,
\* the mix of entries that all have `published` returns one canonical entry
\* for each sorted entry, in the same order, with title, link and description
\* "" when absent, the author keys only when the entry has an author, and
\* categories and enclosures only when the entry has tags and enclosures.
C15_NormalizationTotal ==
  (MixDone /\ \A i \in 1..Len(parsed_entries) : HasSortKey(parsed_entries[i]))
    => /\ ret.kind = "returned"
       /\ Normalized(ret.value, SortDesc(parsed_entries))

\* C16: while __fetch_entries runs, _mixed_entries keeps the value it had;
\* it is written in one step only, the last of the mix, when every submitted
\* future has returned or raised and been collected, and what is written is
\* the whole sorted list, normalized; a mix that returns has written it.
C16_NoPartialResult ==
  [][ /\ (pc = "fetching" /\ pc' = "fetching") => mixed_entries' = mixed_entries
      /\ (pc = "fetching" /\ mixed_entries' # mixed_entries) =>
            /\ \A k \in Futures : status[k] = "consumed"
            /\ pc' = "idle"
            /\ mixed_entries' = extract_meta(SortDesc(parsed_entries))
      /\ (pc = "fetching" /\ lastOp' = "mix" /\ pc' = "idle") =>
            /\ \A k \in Futures : status[k] = "consumed"
            /\ mixed_entries' = extract_meta(SortDesc(parsed_entries))
            /\ ret' = Returned(mixed_entries')
    ]_vars

\* a mix of three sources, one of which raised, has stored its result, which
\* holds entries of the two others
C16_Witness ==
  /\ MixReturned
  /\ Len(feeds) = 3
  /\ Cardinality(Succeeded) = 2
  /\ mixed_entries = ret.value
  /\ \A k \in Succeeded : \E i \in 1..Len(mixed_entries) : mixed_entries[i].pos = k

\* how many entries of future k are kept
KeptCount(k) ==
  IF ~ result[k].ok THEN 0
  ELSE IF num_keep = -1 THEN Len(result[k].entries)
  ELSE Min(Len(result[k].entries), Max(num_keep, 0))

\* the identities of the kept entries of the futures of the sequence ks, one
\* block after the other
RECURSIVE Blocks(_)
Blocks(ks) ==
  IF ks = <<>> THEN <<>>
  ELSE Blocks(SubSeq(ks, 1, Len(ks) - 1))
         \o [ j \in 1..KeptCount(ks[Len(ks)]) |-> << ks[Len(ks)], j >> ]

\* C17: only the loop over the completed futures writes parsed_entries, one
\* future at a time: a step of a fetch task leaves it unchanged, and under
\* every interleaving it holds, for the futures collected so far in the
\* order of their collection, the kept entries of each one that returned as
\* one block, once, and nothing else.
C17_AppendsByCoordinator ==
  /\ [] ( pc = "fetching" =>
            [ i \in 1..Len(parsed_entries) |->
                << parsed_entries[i].pos, parsed_entries[i].idx >> ]
              = Blocks(arrived) )
  /\ [][ (pc = "fetching" /\ parsed_entries' # parsed_entries) =>
            \E k \in Futures :
              /\ status[k] = "returned"
              /\ status' = [status EXCEPT ![k] = "consumed"]
              /\ arrived' = Append(arrived, k)
       ]_vars

\* three sources returned and were collected in another order than they were
\* submitted, while two tasks ran at a time; each has a block in the input
C17_Witness ==
  /\ AllCollected
  /\ max_threads = 2
  /\ Cardinality(Succeeded) = 3
  /\ arrived = << 3, 1, 2 >>
  /\ \A k \in Succeeded : KeptCount(k) >= 1
  /\ Len(parsed_entries) >= 3

\* C18: whenever _mixed_entries is not empty, no list has been assigned
\* since it was computed, and each of its entries was fetched from the
\* element of the current list at the position of its future.
C18_MemoOfCurrentList ==
  mixed_entries # <<>> =>
    /\ pc = "idle"
    /\ lastOp \in {"mix", "hit"}
    /\ \A i \in 1..Len(mixed_entries) :
         /\ mixed_entries[i].pos \in 1..Len(feeds)
         /\ mixed_entries[i].src = feeds[mixed_entries[i].pos]

\* a list of two elements was stored as its first element; a mix stored an
\* entry fetched from that element, and the next access returned the memo
C18_Witness ==
  /\ lastOp = "hit" /\ prevOp = "mix"
  /\ Len(supplied) = 2 /\ Len(feeds) = 1
  /\ mixed_entries # <<>>
  /\ ret = Returned(mixed_entries)
  /\ mixed_entries[1].src = supplied[1]

\* C19: when every started task returns or raises, a mix that has begun
\* completes, whatever the number of sources and of threads and whichever
\* tasks raise; and a future that is done can be collected at once, whatever
\* the other tasks are doing.
C19_MixTerminates ==
  /\ (pc = "fetching") ~> (pc = "idle")
  /\ [] (\A k \in DOMAIN status :
           (pc = "fetching" /\ status[k] \in {"returned", "raised"})
             => ENABLED Collect(k))

\* three sources on one thread: the first future was collected while the
\* second task runs and the third waits for the thread
C19_Witness ==
  /\ pc = "fetching"
  /\ max_threads = 1
  /\ Len(feeds) = 3
  /\ status = << "consumed", "running", "pending" >>
  /\ ~ result[1].ok

\* the input of the merge of a run in which the futures 1..n complete in the
\* order of their submission
RECURSIVE InputInOrder(_)
InputInOrder(n) ==
  IF n = 0 THEN <<>>
  ELSE InputInOrder(n - 1)
         \o (IF result[n].ok
             THEN AuthorFallback(result[n].feed,
                                 Newest(result[n].entries, num_keep))
             ELSE <<>>)

DistinctKeys(es) ==
  \A i, j \in 1..Len(es) :
    (HasSortKey(es[i]) /\ HasSortKey(es[j]) /\ i # j)
      => es[i].published # es[j].published

\* C20: for the same feed list and the same outcomes of the fetches, a run
\* returns what the run whose tasks complete in submission order returns
\* when the kept entries have pairwise distinct `published`; when some are
\* equal, the two results have the same `published` at every place, and the
\* same entries; and one run raises exactly when the other does.
C20_CompletionOrderIrrelevant ==
  MixDone =>
    LET input == InputInOrder(Len(feeds))
        sortable == \A i \in 1..Len(input) : HasSortKey(input[i])
    IN /\ (ret.kind = "returned") <=> sortable
       /\ ret.kind = "returned" =>
            LET inorder == extract_meta(SortDesc(input))
            IN /\ DistinctKeys(input) => ret.value = inorder
               /\ Len(ret.value) = Len(inorder)
               /\ Identities(ret.value) = Identities(inorder)
               /\ \A i \in 1..Len(inorder) :
                    RawOf(ret.value[i]).published = RawOf(inorder[i]).published

\* the second source completed first; three entries with pairwise distinct
\* `published` were kept, and the result begins with an entry of the first
\* source and continues with one of the second
C20_Witness ==
  /\ MixReturned
  /\ arrived = << 2, 1 >>
  /\ Len(ret.value) >= 3
  /\ DistinctKeys(parsed_entries)
  /\ ret.value[1].pos = 1
  /\ ret.value[2].pos = 2

====
